---- MODULE Spec2Model ----
(***************************************************************************)
(* Model of the keep3r harvest worker (04-v2-jobs-work-harvest.ts) and of  *)
(* the two multicall solvers ThreePoolCrvMulticall and                     *)
(* CurveSpellEthMulticall.                                                 *)
(*                                                                         *)
(* The worker is one sequential async function; every action below is the  *)
(* stretch of code between two awaits.  The job contract, the RPC node and *)
(* the local clock are the environment: their answers are drawn with \E.   *)
(***************************************************************************)
EXTENDS Integers, Sequences, FiniteSets, TLC

(***************************************************************************)
(* Bounds of the model.                                                    *)
(***************************************************************************)
\* longest strategy list the job contract returns
MaxStrategies == 2
\* local unix time (seconds) when the process starts
StartTime == 1000
\* seconds of local clock the model lets a run last
MaxElapsed == 152

\* largest token amount of a solver run
MaxAmount == 10
\* bits of a machine word of the model (uint256 has 256)
WordBits == 8
\* longest _tokenIn list of a trade
MaxTokensIn == 2

(***************************************************************************)
(* Program constants.                                                      *)
(***************************************************************************)
\* moment.duration('2.5', 'minutes'), in seconds
REWARD_DUMPED_COOLDOWN == 150

(***************************************************************************)
(* Addresses.  An address string is an account id and a letter case: the   *)
(* node returns checksummed strings ("ck"), a configuration file may hold  *)
(* either case, and String.toLowerCase maps both to "lc".                  *)
(***************************************************************************)
Addr(id, cs) == [id |-> id, cs |-> cs]

toLowerCase(a) == [a EXCEPT !.cs = "lc"]

\* the strategies the job contract may know (an enumerable set: no duplicates)
JobStrategyIds == {"A", "B", "C", "X", "D"}

\* the hardcoded deny list of main (checksummed strings)
sbeetStrats == <<Addr("D", "ck")>>

\* utils/v2-ftm-strategies: the static harvest configurations
harvestConfigurations ==
  << [address |-> Addr("A", "lc"), tokensBeingDumped |-> <<"t1">>],
     [address |-> Addr("B", "ck"), tokensBeingDumped |-> <<"t2", "t1">>],
     [address |-> Addr("C", "ck"), tokensBeingDumped |-> <<>>] >>

\* what estimateGas.work may answer
GasEstimates == {9, 19}

\* what lastWorkAt may answer (chain time): before the cooldown window of the
\* start, or inside it (the chain's clock may run ahead of the local one)
LastWorkChoices ==
  { StartTime - REWARD_DUMPED_COOLDOWN - 1,
    StartTime + 1 }

\* how far the local clock may jump while an RPC call is awaited
ClockJumps == {REWARD_DUMPED_COOLDOWN, REWARD_DUMPED_COOLDOWN + 2}

VARIABLES
  pc,                       \* position of main
  exitCode,                 \* -1 while running, else the process exit code
  error,                    \* what main rejected with (line 111), "none" if nothing
  now,                      \* local clock, unix seconds
  strategies,               \* line 36
  lastWorksAt,              \* line 39
  lastTimeRewardWasDumped,  \* line 12
  writes,                   \* every assignment to lastTimeRewardWasDumped[t], in order
  idx,                      \* position of the for..of loop (1-based)
  gasLimit,                 \* line 80: the estimate awaited last
  worked, notWorkable, onLiquidityCooldown, errorWhileWorked,  \* lines 8-11
  txs,                      \* work transactions submitted to the node
  log                       \* per loop iteration: what the node answered

workerVars ==
  << pc, exitCode, error, now, strategies, lastWorksAt, lastTimeRewardWasDumped,
     writes, idx, gasLimit, worked, notWorkable, onLiquidityCooldown,
     errorWhileWorked, txs, log >>

\* one call of a solver's solve(trade, tradeFactory)
VARIABLES
  solver,      \* the class whose solve runs
  spc,         \* position of solve
  result,      \* "none" while running, then "returned" or "threw"
  loc,         \* the local constants of solve, by name
  allowance,   \* the fork's ERC-20 allowances of the swapper: <<token, spender>> -> amount
  executed,    \* the calls the swapper signer sent during the simulation, in order
  merged       \* the list handed to mergeTransactions

solverVars == << solver, spc, result, loc, allowance, executed, merged >>

\* one call of match(trade) on each solver
VARIABLES
  trade,       \* the trade handed to match
  matched      \* whether match was asked, and the two answers by class

matchVars == << trade, matched >>

vars == << workerVars, solverVars, matchVars >>

(***************************************************************************)
(* Helpers of the worker.                                                  *)
(***************************************************************************)
EmptyMap == [t \in {} |-> 0]

RECURSIVE SeqToSet(_)
SeqToSet(s) == IF s = <<>> THEN {} ELSE {Head(s)} \cup SeqToSet(Tail(s))

\* Array.prototype.indexOf(x) === -1
NotIn(list, x) == \A i \in 1..Len(list) : list[i] # x

\* line 36: Array.prototype.filter against the deny list
RECURSIVE Filter(_)
Filter(list) ==
  IF list = <<>> THEN <<>>
  ELSE IF NotIn(sbeetStrats, Head(list))
       THEN <<Head(list)>> \o Filter(Tail(list))
       ELSE Filter(Tail(list))

\* harvestConfigurations.find(c => c.address.toLowerCase() === s.toLowerCase()):
\* the index of the first match, 0 for undefined
FindConfiguration(strategy) ==
  LET hits == { i \in 1..Len(harvestConfigurations) :
                  toLowerCase(harvestConfigurations[i].address) = toLowerCase(strategy) }
  IN IF hits = {} THEN 0 ELSE CHOOSE i \in hits : \A j \in hits : i <= j

\* one assignment lastTimeRewardWasDumped[token] = value; old is -1 for a new key
Assign(st, token, value) ==
  [map |-> (token :> value) @@ st.map,
   writes |-> Append(st.writes,
                     [token |-> token,
                      old |-> IF token \in DOMAIN st.map THEN st.map[token] ELSE -1,
                      new |-> value])]

\* a fold in which the strategy fetched last wins
RECURSIVE RecordDumpsLastWins(_, _, _)
RecordDumpsLastWins(st, tokens, timestamp) ==
  IF tokens = <<>> THEN st
  ELSE RecordDumpsLastWins(Assign(st, Head(tokens), timestamp), Tail(tokens), timestamp)

\* lines 47-51: one strategy's tokens folded into the map
RECURSIVE RecordDumps(_, _, _)
RecordDumps(st, tokens, timestamp) ==
  IF tokens = <<>> THEN st
  ELSE LET t == Head(tokens)
           next == IF t \notin DOMAIN st.map \/ timestamp > st.map[t]
                   THEN Assign(st, t, timestamp)
                   ELSE st
       IN RecordDumps(next, Tail(tokens), timestamp)

\* a map build that skips a strategy without configuration
RECURSIVE BuildDumpMapSkipping(_, _)
BuildDumpMapSkipping(st, fetched) ==
  IF fetched = <<>> THEN [ok |-> TRUE, st |-> st]
  ELSE LET c == FindConfiguration(Head(fetched).strategy)
       IN IF c = 0 THEN BuildDumpMapSkipping(st, Tail(fetched))
          ELSE BuildDumpMapSkipping(
                 RecordDumps(st, harvestConfigurations[c].tokensBeingDumped,
                             Head(fetched).timestamp),
                 Tail(fetched))

\* lines 42-52: lastWorksAt.forEach; ok is FALSE when line 46 throws
RECURSIVE BuildDumpMap(_, _)
BuildDumpMap(st, fetched) ==
  IF fetched = <<>> THEN [ok |-> TRUE, st |-> st]
  ELSE LET c == FindConfiguration(Head(fetched).strategy)
       IN IF c = 0 THEN [ok |-> FALSE, st |-> st]
          ELSE BuildDumpMap(
                 RecordDumps(st, harvestConfigurations[c].tokensBeingDumped,
                             Head(fetched).timestamp),
                 Tail(fetched))

\* the cooldown test with < for <=
TokenOnCooldownStrict(map, token, clock) ==
  /\ token \in DOMAIN map
  /\ clock - REWARD_DUMPED_COOLDOWN < map[token]

\* line 71, one token: moment().subtract(COOLDOWN).unix() <= map[token]
\* (unix() floors milliseconds to seconds, and so does subtracting 150000 ms
\* first; a missing key reads undefined, and n <= undefined is false)
TokenOnCooldown(map, token, clock) ==
  /\ token \in DOMAIN map
  /\ clock - REWARD_DUMPED_COOLDOWN <= map[token]

\* a worker without the cooldown test
NeverOnCooldown(map, tokens, clock) == FALSE

\* lines 68-72: the forEach that ors the tokens together
RECURSIVE IsStratOnLiquidityCooldown(_, _, _)
IsStratOnLiquidityCooldown(map, tokens, clock) ==
  IF tokens = <<>> THEN FALSE
  ELSE LET rest == IsStratOnLiquidityCooldown(map, SubSeq(tokens, 1, Len(tokens) - 1), clock)
       IN rest \/ TokenOnCooldown(map, tokens[Len(tokens)], clock)

\* the buffer with the division first
BufferedGasLimitDivFirst(estimate) == (estimate \div 100) * 110

\* line 81: gasLimit.mul(110).div(100) on BigNumbers (unbounded, div truncates)
BufferedGasLimit(estimate) == (estimate * 110) \div 100

\* lines 82-84: every dumped token of the strategy is stamped with the clock
RECURSIVE StampDumps(_, _, _)
StampDumps(st, tokens, clock) ==
  IF tokens = <<>> THEN st
  ELSE StampDumps(Assign(st, Head(tokens), clock), Tail(tokens), clock)

\* the sequences over a set, up to a length
RECURSIVE SeqsUpTo(_, _)
SeqsUpTo(S, n) ==
  IF n = 0 THEN {<<>>}
  ELSE LET shorter == SeqsUpTo(S, n - 1)
       IN shorter \cup { Append(s, x) : s \in shorter, x \in S }

NoRepeat(s) == \A i, j \in 1..Len(s) : i # j => s[i] # s[j]

\* strategies() returns an enumerable set of addresses, checksummed by the
\* contract binding: no address twice
JobAnswers ==
  { [i \in 1..Len(s) |-> Addr(s[i], "ck")] :
      s \in { q \in SeqsUpTo(JobStrategyIds, MaxStrategies) : NoRepeat(q) } }

(***************************************************************************)
(* The worker.                                                             *)
(***************************************************************************)
WorkerInit ==
  /\ pc = "start"
  /\ exitCode = -1
  /\ error = "none"
  /\ now = StartTime
  /\ strategies = <<>>
  /\ lastWorksAt = <<>>
  /\ lastTimeRewardWasDumped = EmptyMap
  /\ writes = <<>>
  /\ idx = 0
  /\ gasLimit = 0
  /\ worked = <<>>
  /\ notWorkable = <<>>
  /\ onLiquidityCooldown = <<>>
  /\ errorWhileWorked = <<>>
  /\ txs = <<>>
  /\ log = <<>>

\* lines 109-114: main().catch: console.error(error), process.exit(1)
Abort(why) ==
  /\ pc' = "exit"
  /\ exitCode' = 1
  /\ error' = why

\* lines 17-36: signer, job contract, strategies() and the deny-list filter;
\* a rejected call leaves main through .catch
FetchStrategies ==
  /\ UNCHANGED << solverVars, matchVars >>
  /\ pc = "start"
  /\ \/ /\ \E answer \in JobAnswers : strategies' = Filter(answer)
        /\ pc' = "fetch"
        /\ UNCHANGED << exitCode, error >>
     \/ /\ Abort("strategies rejected")
        /\ UNCHANGED strategies
  /\ UNCHANGED << now, lastWorksAt, lastTimeRewardWasDumped, writes, idx, gasLimit,
                  worked, notWorkable, onLiquidityCooldown, errorWhileWorked, txs, log >>

\* lines 39-52 and 102-107: Promise.all over getLastWorkAt (one rejection
\* rejects all), then the dump map; line 46 throws on a strategy without
\* configuration
FetchLastWorksAt ==
  /\ UNCHANGED << solverVars, matchVars >>
  /\ pc = "fetch"
  /\ \/ /\ \E stamps \in [1..Len(strategies) -> LastWorkChoices] :
             LET fetched == [i \in 1..Len(strategies) |->
                               [strategy |-> strategies[i], timestamp |-> stamps[i]]]
                 built == BuildDumpMap([map |-> lastTimeRewardWasDumped,
                                        writes |-> writes], fetched)
             IN /\ lastWorksAt' = fetched
                /\ lastTimeRewardWasDumped' = built.st.map
                /\ writes' = built.st.writes
                /\ IF built.ok
                   THEN pc' = "loop" /\ idx' = 1 /\ UNCHANGED << exitCode, error >>
                   ELSE Abort("Mismatch between harvests configuration and job strategies")
                        /\ UNCHANGED idx
     \/ /\ strategies # <<>>
        /\ Abort("lastWorkAt rejected")
        /\ UNCHANGED << lastWorksAt, lastTimeRewardWasDumped, writes, idx >>
  /\ UNCHANGED << now, strategies, gasLimit, worked, notWorkable,
                  onLiquidityCooldown, errorWhileWorked, txs, log >>

\* lines 57-59: the configuration of a strategy of the loop
Tokens(strategy) == harvestConfigurations[FindConfiguration(strategy)].tokensBeingDumped

\* what the loop notes down about one iteration
Entry(strategy, workable, threw, done) ==
  [strategy |-> strategy, workable |-> workable, threw |-> threw, done |-> done,
   clock |-> now, seen |-> lastTimeRewardWasDumped, estimate |-> -1]

\* a catch that leaves the loop
CaughtBreaks(entry) ==
  /\ errorWhileWorked' = Append(errorWhileWorked, strategies[idx])
  /\ log' = entry
  /\ idx' = Len(strategies) + 1
  /\ pc' = "loop"

\* lines 87-91: catch, push to errorWhileWorked, next strategy
Caught(entry) ==
  /\ errorWhileWorked' = Append(errorWhileWorked, strategies[idx])
  /\ log' = entry
  /\ idx' = idx + 1
  /\ pc' = "loop"

\* lines 55-79: workable() and the cooldown test; reading tokensBeingDumped
\* of a missing configuration is a TypeError inside the try.  The forEach of
\* lines 69-72 is synchronous: its moment() calls read one clock value
CheckWorkable ==
  /\ UNCHANGED << solverVars, matchVars >>
  /\ pc = "loop"
  /\ idx <= Len(strategies)
  /\ LET strategy == strategies[idx]
     IN \/ /\ Caught(Append(log, Entry(strategy, "threw", "workable", TRUE)))
           /\ UNCHANGED << notWorkable, onLiquidityCooldown >>
        \/ \E workable \in BOOLEAN :
             IF ~workable
             THEN /\ notWorkable' = Append(notWorkable, strategy)
                  /\ log' = Append(log, Entry(strategy, "false", "none", TRUE))
                  /\ idx' = idx + 1
                  /\ pc' = "loop"
                  /\ UNCHANGED << onLiquidityCooldown, errorWhileWorked >>
             ELSE IF FindConfiguration(strategy) = 0
             THEN /\ Caught(Append(log, Entry(strategy, "true", "configuration", TRUE)))
                  /\ UNCHANGED << notWorkable, onLiquidityCooldown >>
             ELSE IF IsStratOnLiquidityCooldown(lastTimeRewardWasDumped, Tokens(strategy), now)
             THEN /\ onLiquidityCooldown' = Append(onLiquidityCooldown, strategy)
                  /\ log' = Append(log, Entry(strategy, "true", "none", TRUE))
                  /\ idx' = idx + 1
                  /\ pc' = "loop"
                  /\ UNCHANGED << notWorkable, errorWhileWorked >>
             ELSE /\ log' = Append(log, Entry(strategy, "true", "none", FALSE))
                  /\ pc' = "estimate"
                  /\ UNCHANGED << idx, notWorkable, onLiquidityCooldown, errorWhileWorked >>
  /\ UNCHANGED << exitCode, error, now, strategies, lastWorksAt, lastTimeRewardWasDumped,
                  writes, gasLimit, worked, txs >>

\* the entry of the running iteration
Running == log[Len(log)]

Relog(entry) == [log EXCEPT ![Len(log)] = entry]

\* line 80: estimateGas.work(strategy)
EstimateGas ==
  /\ UNCHANGED << solverVars, matchVars >>
  /\ pc = "estimate"
  /\ \/ /\ \E estimate \in GasEstimates :
             /\ gasLimit' = estimate
             /\ log' = Relog([Running EXCEPT !.estimate = estimate])
        /\ pc' = "work"
        /\ UNCHANGED << idx, errorWhileWorked >>
     \/ /\ Caught(Relog([Running EXCEPT !.threw = "estimateGas", !.done = TRUE]))
        /\ UNCHANGED gasLimit
  /\ UNCHANGED << exitCode, error, now, strategies, lastWorksAt, lastTimeRewardWasDumped,
                  writes, worked, notWorkable, onLiquidityCooldown, txs >>

\* lines 81-86: work(strategy, {gasLimit}), the stamps, worked.push
Work ==
  /\ UNCHANGED << solverVars, matchVars >>
  /\ pc = "work"
  /\ LET strategy == strategies[idx]
         stamped == StampDumps([map |-> lastTimeRewardWasDumped, writes |-> writes],
                               Tokens(strategy), now)
     IN \/ /\ txs' = Append(txs, [strategy |-> strategy,
                                   gasLimit |-> BufferedGasLimit(gasLimit)])
           /\ lastTimeRewardWasDumped' = stamped.map
           /\ writes' = stamped.writes
           /\ worked' = Append(worked, strategy)
           /\ log' = Relog([Running EXCEPT !.done = TRUE])
           /\ idx' = idx + 1
           /\ pc' = "loop"
           /\ UNCHANGED errorWhileWorked
        \/ /\ Caught(Relog([Running EXCEPT !.threw = "work", !.done = TRUE]))
           /\ UNCHANGED << txs, lastTimeRewardWasDumped, writes, worked >>
  /\ UNCHANGED << exitCode, error, now, strategies, lastWorksAt, gasLimit, notWorkable,
                  onLiquidityCooldown >>

\* lines 93-100 and 110: the summary, then process.exit(0)
Summary ==
  /\ UNCHANGED << solverVars, matchVars >>
  /\ pc = "loop"
  /\ idx > Len(strategies)
  /\ pc' = "exit"
  /\ exitCode' = 0
  /\ UNCHANGED << error, now, strategies, lastWorksAt, lastTimeRewardWasDumped, writes,
                  idx, gasLimit, worked, notWorkable, onLiquidityCooldown,
                  errorWhileWorked, txs, log >>

\* the local clock moves forward while a call is awaited
ClockAdvances ==
  /\ UNCHANGED << solverVars, matchVars >>
  /\ pc \in {"fetch", "loop", "estimate", "work"}
  /\ \E d \in ClockJumps :
       /\ now + d <= StartTime + MaxElapsed
       /\ now' = now + d
  /\ UNCHANGED << pc, exitCode, error, strategies, lastWorksAt, lastTimeRewardWasDumped,
                  writes, idx, gasLimit, worked, notWorkable, onLiquidityCooldown,
                  errorWhileWorked, txs, log >>

(***************************************************************************)
(* The multicall solvers.                                                  *)
(***************************************************************************)
\* lines 14-21: the addresses of ThreePoolCrvMulticall
ThreePoolCrvMulticall ==
  [ threeCrv |-> "0x6c3F", yveCrv |-> "0xc5bD", yvBoost |-> "0x9d40",
    strategy |-> "0x91C3", crv3Pool |-> "0xbEbc", usdc |-> "0xA0b8",
    multicallSwapper |-> "0xceB2", zrxContract |-> "0xDef1" ]

\* lines 147-154: the addresses of CurveSpellEthMulticall
CurveSpellEthMulticall ==
  [ crvSpellEth |-> "0x8282", strategy |-> "0xeDB4", curveSwap |-> "0x9863",
    crv |-> "0xD533", cvx |-> "0x4e3F", weth |-> "0xC02a",
    multicallSwapper |-> "0x7F03", zrxContract |-> "0xDef1" ]

\* ethers' constants.MaxUint256, at the model's word width
MaxUint256 == 2 ^ WordBits - 1

\* the allowance targets a 0x quote may name
ZrxTargets == {"0xDef1", "0xF4c9"}

AmountChoices == {0, 1, MaxAmount - 1, MaxAmount}

AllowanceChoices == {0, MaxAmount - 1, MaxAmount, MaxUint256}

\* BigNumber.prototype.toString: the decimal digits as UTF-16 code units
RECURSIVE Digits(_)
Digits(n) == IF n < 10 THEN <<48 + n>> ELSE Append(Digits(n \div 10), 48 + (n % 10))

toString(n) == IF n < 0 THEN <<45>> \o Digits(0 - n) ELSE Digits(n)

\* the < of JavaScript on two strings: by code unit, a proper prefix first
RECURSIVE StringLess(_, _)
StringLess(a, b) ==
  IF b = <<>> THEN FALSE
  ELSE IF a = <<>> THEN TRUE
  ELSE IF Head(a) # Head(b) THEN Head(a) < Head(b)
  ELSE StringLess(Tail(a), Tail(b))

\* lines 69, 186, 204: x < y on two BigNumber objects.  BigNumber defines no
\* valueOf, so the operands are converted with toString and compared as strings
BigNumberLess(x, y) == StringLess(toString(x), toString(y))

\* contract.populateTransaction.fn(args), and the call contract.fn(args) sends
Call(to, fn, args) == [to |-> to, data |-> <<fn>> \o args]

\* add_liquidity(..., {value})
PayableCall(to, fn, args, value) == [to |-> to, data |-> <<fn>> \o args, value |-> value]

\* the calldata of a 0x quote: opaque, fixed by what was asked
ZrxData(sellToken, buyToken, sellAmount) == <<"zrx", sellToken, buyToken, sellAmount>>

Let(name, value) == (name :> value) @@ loc

\* an exception leaves solve
SolveThrows ==
  /\ result' = "threw"
  /\ spc' = "done"
  /\ UNCHANGED << solver, loc, allowance, executed, merged >>

\* lines 42-46: the USDC to sell, with the 1 wei of dust
UsdcBalance(usdcBalancePre, usdcBalanceTotal) ==
  LET usdcBalance == usdcBalanceTotal - usdcBalancePre
  IN IF usdcBalanceTotal = usdcBalance THEN usdcBalance - 1 ELSE usdcBalance

\* a populated list that leaves the approval out
ThreePoolTransactionsNoApprove(l) ==
  LET c == ThreePoolCrvMulticall
  IN <<Call(c.crv3Pool, "remove_liquidity_one_coin", <<l.amount, 1, 0>>)>>
     \o <<l.tx>>
     \o <<Call(c.yvBoost, "withdraw", <<MaxUint256, c.strategy, 0>>)>>

\* lines 88-100: the populated transactions of ThreePoolCrvMulticall
ThreePoolTransactions(l) ==
  LET c == ThreePoolCrvMulticall
  IN <<Call(c.crv3Pool, "remove_liquidity_one_coin", <<l.amount, 1, 0>>)>>
     \o (IF l.approveUsdc
         THEN <<Call(c.usdc, "approve", <<l.zrxAllowanceTarget, MaxUint256>>)>>
         ELSE <<>>)
     \o <<l.tx>>
     \o <<Call(c.yvBoost, "withdraw", <<MaxUint256, c.strategy, 0>>)>>

\* lines 24-35: balanceOf, and the strategy's transfer to the swapper
ThreePoolTransfer ==
  /\ solver = "ThreePoolCrvMulticall"
  /\ spc = "start"
  /\ \/ /\ \E amount \in {0, MaxAmount} : loc' = Let("amount", amount)
        /\ spc' = "removeLiquidity"
        /\ UNCHANGED << solver, result, allowance, executed, merged >>
     \/ SolveThrows
  /\ UNCHANGED << workerVars, matchVars >>

\* lines 37-51: remove_liquidity_one_coin between two balance reads
ThreePoolRemoveLiquidity ==
  /\ solver = "ThreePoolCrvMulticall"
  /\ spc = "removeLiquidity"
  /\ \/ /\ \E usdcBalancePre \in {0, 1}, received \in AmountChoices :
             LET usdcBalanceTotal == usdcBalancePre + received
             IN loc' = [usdcBalancePre |-> usdcBalancePre,
                        usdcBalanceTotal |-> usdcBalanceTotal,
                        usdcBalance |-> UsdcBalance(usdcBalancePre, usdcBalanceTotal)]
                       @@ loc
        /\ executed' = Append(executed,
             Call(ThreePoolCrvMulticall.crv3Pool, "remove_liquidity_one_coin",
                  <<loc.amount, 1, 0>>))
        /\ spc' = "quote"
        /\ UNCHANGED << solver, result, allowance, merged >>
     \/ SolveThrows
  /\ UNCHANGED << workerVars, matchVars >>

\* lines 53-67: the 0x quote, which cannot carry a negative uint256
ThreePoolQuote ==
  /\ solver = "ThreePoolCrvMulticall"
  /\ spc = "quote"
  /\ \/ /\ loc.usdcBalance >= 0
        /\ \E target \in ZrxTargets :
             loc' = [zrxAllowanceTarget |-> target,
                     sellAmount |-> loc.usdcBalance,
                     tx |-> [to |-> ThreePoolCrvMulticall.zrxContract,
                             data |-> ZrxData(ThreePoolCrvMulticall.usdc,
                                              ThreePoolCrvMulticall.yvBoost,
                                              loc.usdcBalance)]]
                    @@ loc
        /\ spc' = "approve"
        /\ UNCHANGED << solver, result, allowance, executed, merged >>
     \/ SolveThrows
  /\ UNCHANGED << workerVars, matchVars >>

\* lines 69-73: the allowance test and the approval
ThreePoolApprove ==
  /\ solver = "ThreePoolCrvMulticall"
  /\ spc = "approve"
  /\ LET c == ThreePoolCrvMulticall
         slot == <<c.usdc, loc.zrxAllowanceTarget>>
         approveUsdc == BigNumberLess(allowance[slot], loc.usdcBalance)
     IN \/ /\ loc' = [approveUsdc |-> approveUsdc, usdcAllowance |-> allowance[slot]] @@ loc
           /\ IF approveUsdc
              THEN /\ executed' = Append(executed,
                         Call(c.usdc, "approve", <<loc.zrxAllowanceTarget, MaxUint256>>))
                   /\ allowance' = [allowance EXCEPT ![slot] = MaxUint256]
              ELSE UNCHANGED << executed, allowance >>
           /\ spc' = "swap"
           /\ UNCHANGED << solver, result, merged >>
        \/ SolveThrows
  /\ UNCHANGED << workerVars, matchVars >>

\* lines 75-79: the swap; the allowance target pulls the USDC with
\* transferFrom, which reverts above the allowance
ThreePoolSwap ==
  /\ solver = "ThreePoolCrvMulticall"
  /\ spc = "swap"
  /\ LET slot == <<ThreePoolCrvMulticall.usdc, loc.zrxAllowanceTarget>>
     IN \/ /\ allowance[slot] >= loc.usdcBalance
           /\ executed' = Append(executed, loc.tx)
           /\ allowance' = [allowance EXCEPT ![slot] = @ - loc.usdcBalance]
           /\ spc' = "withdraw"
           /\ UNCHANGED << solver, result, loc, merged >>
        \/ SolveThrows
  /\ UNCHANGED << workerVars, matchVars >>

\* lines 81-85: the vault withdrawal of the simulation, to the swapper
ThreePoolWithdraw ==
  /\ solver = "ThreePoolCrvMulticall"
  /\ spc = "withdraw"
  /\ \/ /\ executed' = Append(executed,
             Call(ThreePoolCrvMulticall.yvBoost, "withdraw",
                  <<MaxUint256, ThreePoolCrvMulticall.multicallSwapper, 0>>))
        /\ spc' = "merge"
        /\ UNCHANGED << solver, result, loc, allowance, merged >>
     \/ SolveThrows
  /\ UNCHANGED << workerVars, matchVars >>

\* lines 87-121: the populated transactions, mergeTransactions, the return
ThreePoolMerge ==
  /\ solver = "ThreePoolCrvMulticall"
  /\ spc = "merge"
  /\ merged' = ThreePoolTransactions(loc)
  /\ result' = "returned"
  /\ spc' = "done"
  /\ UNCHANGED << solver, loc, allowance, executed >>
  /\ UNCHANGED << workerVars, matchVars >>

\* lines 221-233: the populated transactions of CurveSpellEthMulticall
CurveSpellEthTransactions(l) ==
  LET c == CurveSpellEthMulticall
  IN (IF l.approveCrv
      THEN <<Call(c.crv, "approve", <<l.zrxCrvAllowanceTarget, MaxUint256>>)>>
      ELSE <<>>)
     \o <<l.crvToWethTx>>
     \o (IF l.approveCvx
         THEN <<Call(c.cvx, "approve", <<l.zrxCvxAllowanceTarget, MaxUint256>>)>>
         ELSE <<>>)
     \o <<l.cvxToWethTx>>
     \o <<Call(c.weth, "withdraw", <<l.wethBalance>>)>>
     \o <<PayableCall(c.curveSwap, "add_liquidity",
                      <<l.wethBalance, 0, 0, TRUE, c.strategy>>, l.wethBalance)>>

\* line 204: the allowance the cvx leg reads (the crv token's)
CvxLegAllowance(target) == allowance[<<CurveSpellEthMulticall.crv, target>>]

\* lines 157-175: the balances, the zero-balance throw, the two transfers
CurveSpellEthTransfer ==
  /\ solver = "CurveSpellEthMulticall"
  /\ spc = "start"
  /\ \/ \E crvBalance \in AmountChoices, cvxBalance \in AmountChoices :
          IF crvBalance <= 0 /\ cvxBalance <= 0
          THEN SolveThrows
          ELSE /\ loc' = [crvBalance |-> crvBalance, cvxBalance |-> cvxBalance] @@ loc
               /\ spc' = "crvQuote"
               /\ UNCHANGED << solver, result, allowance, executed, merged >>
     \/ SolveThrows
  /\ UNCHANGED << workerVars, matchVars >>

\* lines 177-192: the quote of the crv leg, the allowance test, the approval
CurveSpellEthCrvApprove ==
  /\ solver = "CurveSpellEthMulticall"
  /\ spc = "crvQuote"
  /\ LET c == CurveSpellEthMulticall
     IN \/ \E target \in ZrxTargets :
             LET slot == <<c.crv, target>>
                 approveCrv == BigNumberLess(allowance[slot], loc.crvBalance)
             IN /\ loc' = [zrxCrvAllowanceTarget |-> target,
                           approveCrv |-> approveCrv,
                           crvAllowance |-> allowance[slot],
                           crvToWethTx |-> [to |-> c.zrxContract,
                                            data |-> ZrxData(c.crv, c.weth, loc.crvBalance)]]
                          @@ loc
                /\ IF approveCrv
                   THEN /\ executed' = Append(executed,
                              Call(c.crv, "approve", <<target, MaxUint256>>))
                        /\ allowance' = [allowance EXCEPT ![slot] = MaxUint256]
                   ELSE UNCHANGED << executed, allowance >>
                /\ spc' = "crvSwap"
                /\ UNCHANGED << solver, result, merged >>
        \/ SolveThrows
  /\ UNCHANGED << workerVars, matchVars >>

\* line 193: the crv swap (transferFrom reverts above the allowance)
CurveSpellEthCrvSwap ==
  /\ solver = "CurveSpellEthMulticall"
  /\ spc = "crvSwap"
  /\ LET slot == <<CurveSpellEthMulticall.crv, loc.zrxCrvAllowanceTarget>>
     IN \/ /\ allowance[slot] >= loc.crvBalance
           /\ executed' = Append(executed, loc.crvToWethTx)
           /\ allowance' = [allowance EXCEPT ![slot] = @ - loc.crvBalance]
           /\ spc' = "cvxQuote"
           /\ UNCHANGED << solver, result, loc, merged >>
        \/ SolveThrows
  /\ UNCHANGED << workerVars, matchVars >>

\* lines 195-210: the quote of the cvx leg, the allowance test, the approval
CurveSpellEthCvxApprove ==
  /\ solver = "CurveSpellEthMulticall"
  /\ spc = "cvxQuote"
  /\ LET c == CurveSpellEthMulticall
     IN \/ \E target \in ZrxTargets :
             LET slot == <<c.cvx, target>>
                 approveCvx == BigNumberLess(CvxLegAllowance(target), loc.cvxBalance)
             IN /\ loc' = [zrxCvxAllowanceTarget |-> target,
                           approveCvx |-> approveCvx,
                           cvxAllowance |-> allowance[slot],
                           cvxToWethTx |-> [to |-> c.zrxContract,
                                            data |-> ZrxData(c.cvx, c.weth, loc.cvxBalance)]]
                          @@ loc
                /\ IF approveCvx
                   THEN /\ executed' = Append(executed,
                              Call(c.cvx, "approve", <<target, MaxUint256>>))
                        /\ allowance' = [allowance EXCEPT ![slot] = MaxUint256]
                   ELSE UNCHANGED << executed, allowance >>
                /\ spc' = "cvxSwap"
                /\ UNCHANGED << solver, result, merged >>
        \/ SolveThrows
  /\ UNCHANGED << workerVars, matchVars >>

\* line 211: the cvx swap
CurveSpellEthCvxSwap ==
  /\ solver = "CurveSpellEthMulticall"
  /\ spc = "cvxSwap"
  /\ LET slot == <<CurveSpellEthMulticall.cvx, loc.zrxCvxAllowanceTarget>>
     IN \/ /\ allowance[slot] >= loc.cvxBalance
           /\ executed' = Append(executed, loc.cvxToWethTx)
           /\ allowance' = [allowance EXCEPT ![slot] = @ - loc.cvxBalance]
           /\ spc' = "unwrap"
           /\ UNCHANGED << solver, result, loc, merged >>
        \/ SolveThrows
  /\ UNCHANGED << workerVars, matchVars >>

\* lines 213-218: weth.withdraw and add_liquidity of the simulation
CurveSpellEthAddLiquidity ==
  /\ solver = "CurveSpellEthMulticall"
  /\ spc = "unwrap"
  /\ LET c == CurveSpellEthMulticall
     IN \/ \E wethBalance \in {1, MaxAmount} :
             /\ loc' = Let("wethBalance", wethBalance)
             /\ executed' = executed
                  \o <<Call(c.weth, "withdraw", <<wethBalance>>)>>
                  \o <<PayableCall(c.curveSwap, "add_liquidity",
                                   <<wethBalance, 0, 0, TRUE, c.strategy>>, wethBalance)>>
             /\ spc' = "merge"
             /\ UNCHANGED << solver, result, allowance, merged >>
        \/ SolveThrows
  /\ UNCHANGED << workerVars, matchVars >>

\* lines 220-262: the populated transactions, mergeTransactions, the return
CurveSpellEthMerge ==
  /\ solver = "CurveSpellEthMulticall"
  /\ spc = "merge"
  /\ merged' = CurveSpellEthTransactions(loc)
  /\ result' = "returned"
  /\ spc' = "done"
  /\ UNCHANGED << solver, loc, allowance, executed >>
  /\ UNCHANGED << workerVars, matchVars >>

SolverIdle ==
  /\ solver = "none"
  /\ spc = "idle"
  /\ result = "none"
  /\ loc = EmptyMap
  /\ allowance = EmptyMap
  /\ executed = <<>>
  /\ merged = <<>>

\* a solve is about to run on a fork whose allowances are whatever they are
SolverInit ==
  /\ solver \in {"ThreePoolCrvMulticall", "CurveSpellEthMulticall"}
  /\ spc = "start"
  /\ result = "none"
  /\ loc = EmptyMap
  /\ allowance \in
       IF solver = "ThreePoolCrvMulticall"
       THEN [{ThreePoolCrvMulticall.usdc} \X ZrxTargets -> AllowanceChoices]
       ELSE [{CurveSpellEthMulticall.crv, CurveSpellEthMulticall.cvx} \X ZrxTargets
               -> AllowanceChoices]
  /\ executed = <<>>
  /\ merged = <<>>

(***************************************************************************)
(* match.                                                                  *)
(***************************************************************************)
\* a _tokenIn is one address string or a list of them
Str(a) == [kind |-> "string", v |-> a]

List(l) == [kind |-> "array", v |-> l]

\* x == s of JavaScript, s a string: an array is first joined with ","
LooseEquals(x, s) ==
  IF x.kind = "string" THEN x.v = s
  ELSE Len(x.v) = 1 /\ x.v[1] = s

\* _.includes(x, s): an element of an array, a substring of a string (of two
\* address strings, the same string)
includes(x, s) ==
  IF x.kind = "string" THEN x.v = s
  ELSE \E i \in 1..Len(x.v) : x.v[i] = s

\* lines 124-126
ThreePoolMatch(t) ==
  /\ t._strategy = ThreePoolCrvMulticall.strategy
  /\ LooseEquals(t._tokenIn, ThreePoolCrvMulticall.threeCrv)
  /\ t._tokenOut = ThreePoolCrvMulticall.yveCrv

\* a match that does not look at _tokenOut
CurveSpellEthMatchAnyTokenOut(t) ==
  /\ t._strategy = CurveSpellEthMulticall.strategy
  /\ includes(t._tokenIn, CurveSpellEthMulticall.crv)
  /\ includes(t._tokenIn, CurveSpellEthMulticall.cvx)

\* lines 265-272
CurveSpellEthMatch(t) ==
  /\ t._strategy = CurveSpellEthMulticall.strategy
  /\ includes(t._tokenIn, CurveSpellEthMulticall.crv)
  /\ includes(t._tokenIn, CurveSpellEthMulticall.cvx)
  /\ t._tokenOut = CurveSpellEthMulticall.crvSpellEth

TradeStrategies ==
  {ThreePoolCrvMulticall.strategy, CurveSpellEthMulticall.strategy, "0x0000"}

TradeTokensIn ==
  {ThreePoolCrvMulticall.threeCrv, CurveSpellEthMulticall.crv, CurveSpellEthMulticall.cvx}

TradeTokensOut ==
  {ThreePoolCrvMulticall.yveCrv, CurveSpellEthMulticall.crvSpellEth, "0x0000"}

Trades ==
  [ _strategy : TradeStrategies,
    _tokenIn : { Str(a) : a \in TradeTokensIn }
               \cup { List(l) : l \in { q \in SeqsUpTo(TradeTokensIn, MaxTokensIn) : NoRepeat(q) } },
    _tokenOut : TradeTokensOut ]

NotAsked ==
  [asked |-> FALSE, ThreePoolCrvMulticall |-> FALSE, CurveSpellEthMulticall |-> FALSE]

MatchIdle ==
  /\ trade = "none"
  /\ matched = NotAsked

MatchInit ==
  /\ trade \in Trades
  /\ matched = NotAsked

\* the selection of a solver: match on each class
Match ==
  /\ ~matched.asked
  /\ matched' = [asked |-> TRUE,
                 ThreePoolCrvMulticall |-> ThreePoolMatch(trade),
                 CurveSpellEthMulticall |-> CurveSpellEthMatch(trade)]
  /\ UNCHANGED trade
  /\ UNCHANGED << workerVars, solverVars >>

(***************************************************************************)
(* The specifications.                                                     *)
(***************************************************************************)
Init == WorkerInit /\ SolverIdle /\ MatchIdle

Next ==
  \/ FetchStrategies
  \/ FetchLastWorksAt
  \/ CheckWorkable
  \/ EstimateGas
  \/ Work
  \/ Summary
  \/ ClockAdvances

Spec == Init /\ [][Next]_vars

\* every awaited call settles and the event loop runs its continuation
FairSpec == Spec /\ WF_vars(Next)

WorkerIdle ==
  /\ pc = "idle"
  /\ exitCode = -1
  /\ error = "none"
  /\ now = StartTime
  /\ strategies = <<>>
  /\ lastWorksAt = <<>>
  /\ lastTimeRewardWasDumped = EmptyMap
  /\ writes = <<>>
  /\ idx = 0
  /\ gasLimit = 0
  /\ worked = <<>>
  /\ notWorkable = <<>>
  /\ onLiquidityCooldown = <<>>
  /\ errorWhileWorked = <<>>
  /\ txs = <<>>
  /\ log = <<>>

SolverSpecInit == WorkerIdle /\ SolverInit /\ MatchIdle

SolverNext ==
  \/ ThreePoolTransfer
  \/ ThreePoolRemoveLiquidity
  \/ ThreePoolQuote
  \/ ThreePoolApprove
  \/ ThreePoolSwap
  \/ ThreePoolWithdraw
  \/ ThreePoolMerge
  \/ CurveSpellEthTransfer
  \/ CurveSpellEthCrvApprove
  \/ CurveSpellEthCrvSwap
  \/ CurveSpellEthCvxApprove
  \/ CurveSpellEthCvxSwap
  \/ CurveSpellEthAddLiquidity
  \/ CurveSpellEthMerge

SolverSpec == SolverSpecInit /\ [][SolverNext]_vars

MatchSpecInit == WorkerIdle /\ SolverIdle /\ MatchInit

MatchNext == Match

MatchSpec == MatchSpecInit /\ [][MatchNext]_vars

(***************************************************************************)
(* Properties of the harvest worker.                                       *)
(***************************************************************************)
\* the iterations of the loop that have ended
Completed == { i \in 1..Len(log) : log[i].done }

InList(list, x) == \E i \in 1..Len(list) : list[i] = x

Count(list, x) == Cardinality({ i \in 1..Len(list) : list[i] = x })

TxsFor(strategy) == { i \in 1..Len(txs) : txs[i].strategy = strategy }

\* some dumped token of the entry's strategy was dumped less than the
\* cooldown before the clock the iteration read
WithinCooldown(e) ==
  \E t \in SeqToSet(Tokens(e.strategy)) :
    /\ t \in DOMAIN e.seen
    /\ e.clock - REWARD_DUMPED_COOLDOWN <= e.seen[t]

Threw(e) == e.threw \in {"workable", "estimateGas", "work"}

\* every token some configuration dumps
RewardTokens ==
  UNION { SeqToSet(harvestConfigurations[i].tokensBeingDumped) :
            i \in 1..Len(harvestConfigurations) }

Mismatch == \E i \in 1..Len(strategies) : FindConfiguration(strategies[i]) = 0

\* C1: a strategy whose workable() answered false gets no work transaction and
\* is listed in notWorkable, never in worked or onLiquidityCooldown; a workable
\* strategy with a dumped token inside the cooldown window (a stamp written
\* earlier in the same run included) gets no work transaction and is listed in
\* onLiquidityCooldown and not in worked.
C1_Theorem ==
  \A i \in Completed :
    LET e == log[i]
        s == e.strategy
    IN /\ e.workable = "false" =>
            /\ TxsFor(s) = {}
            /\ InList(notWorkable, s)
            /\ ~InList(worked, s)
            /\ ~InList(onLiquidityCooldown, s)
       /\ (e.workable = "true" /\ WithinCooldown(e)) =>
            /\ TxsFor(s) = {}
            /\ InList(onLiquidityCooldown, s)
            /\ ~InList(worked, s)

\* a workable strategy skipped because of a stamp another strategy's work
\* wrote earlier in this run
C1_Witness ==
  \E i \in Completed :
    LET e == log[i]
    IN /\ e.workable = "true"
       /\ InList(onLiquidityCooldown, e.strategy)
       /\ worked # <<>>
       /\ \E t \in SeqToSet(Tokens(e.strategy)) :
            /\ t \in DOMAIN e.seen
            /\ e.clock - REWARD_DUMPED_COOLDOWN <= e.seen[t]
            /\ \A k \in 1..Len(lastWorksAt) : lastWorksAt[k].timestamp # e.seen[t]

\* C4: a workable strategy outside every cooldown window, with estimateGas and
\* work succeeding, gets exactly one work transaction, whose gas limit is
\* floor(estimate * 110 / 100), and is listed once in worked and nowhere else.
C4_Theorem ==
  \A i \in Completed :
    LET e == log[i]
        s == e.strategy
    IN (e.workable = "true" /\ ~WithinCooldown(e) /\ e.threw = "none") =>
         /\ Cardinality(TxsFor(s)) = 1
         /\ \A k \in TxsFor(s) :
              /\ 100 * txs[k].gasLimit <= 110 * e.estimate
              /\ 110 * e.estimate < 100 * (txs[k].gasLimit + 1)
         /\ Count(worked, s) = 1
         /\ ~InList(notWorkable, s)
         /\ ~InList(onLiquidityCooldown, s)
         /\ ~InList(errorWhileWorked, s)

\* a strategy worked with an estimate that the division rounds down
C4_Witness ==
  \E i \in Completed :
    /\ log[i].workable = "true"
    /\ log[i].threw = "none"
    /\ log[i].estimate = 19
    /\ \E k \in TxsFor(log[i].strategy) : txs[k].gasLimit = 20
    /\ InList(worked, log[i].strategy)

\* what C5 says of the lists and of the end of the run
C5_Lists ==
  \A i \in Completed :
    LET s == log[i].strategy
    IN Threw(log[i]) =>
         /\ Count(errorWhileWorked, s) = 1
         /\ ~InList(worked, s)
         /\ ~InList(notWorkable, s)
         /\ ~InList(onLiquidityCooldown, s)
         /\ TxsFor(s) = {}
         /\ exitCode # 1

AllProcessed ==
  /\ Len(log) = Len(strategies)
  /\ \A k \in 1..Len(strategies) : log[k].done /\ log[k].strategy = strategies[k]

\* C5: an exception of workable, estimateGas.work or work is caught; the
\* strategy is listed in errorWhileWorked and in no other list; every later
\* strategy is still processed, and the run reaches the summary and exits 0.
C5_Theorem ==
  /\ []C5_Lists
  /\ (\E i \in Completed : Threw(log[i])) ~> (exitCode = 0 /\ AllProcessed)

\* a run that ended after an exception on its first strategy and a work
\* transaction for a later one
C5_Witness ==
  /\ pc = "exit"
  /\ exitCode = 0
  /\ Len(log) >= 2
  /\ Threw(log[1])
  /\ InList(errorWhileWorked, log[1].strategy)
  /\ InList(worked, log[2].strategy)

Causes ==
  { "strategies rejected", "lastWorkAt rejected",
    "Mismatch between harvests configuration and job strategies" }

\* C6 as claimed: of a run whose strategy list arrived, exit 1 if and only if a
\* listed strategy has no harvest configuration (so a rejected lastWorkAt does
\* not abort the run).
C6_AsClaimed ==
  (pc = "exit" /\ error # "strategies rejected") => (exitCode = 1 <=> Mismatch)

\* C6 as amended: the run exits 1 if and only if a call made before the loop
\* rejects (strategies(), one lastWorkAt) or a listed strategy has no harvest
\* configuration; all of these abort before the loop starts and before any work
\* transaction; nothing that fails inside the loop aborts the run.
C6_Theorem ==
  /\ exitCode = 1 =>
       /\ error \in Causes
       /\ idx = 0 /\ log = <<>> /\ txs = <<>>
       /\ error = "Mismatch between harvests configuration and job strategies" => Mismatch
  /\ exitCode # 1 => error = "none"
  /\ (pc \notin {"start", "fetch"} /\ Mismatch) => exitCode = 1
  /\ (\E i \in Completed : log[i].threw # "none") => exitCode # 1

\* a run aborted by a strategy without configuration
C6_Witness ==
  /\ pc = "exit"
  /\ exitCode = 1
  /\ Mismatch
  /\ error = "Mismatch between harvests configuration and job strategies"
  /\ Len(lastWorksAt) = Len(strategies)

\* the maximum of a non-empty set of numbers
MaxOf(S) == CHOOSE x \in S : \A y \in S : y <= x

\* C7: when the loop is entered, every reward token some fetched strategy dumps
\* is mapped to the largest lastWorkAt among the fetched strategies dumping it,
\* whatever the order of the strategies.
C7_Theorem ==
  (pc = "loop" /\ idx = 1 /\ log = <<>>) =>
    \A t \in RewardTokens :
      LET dumping == { i \in 1..Len(lastWorksAt) :
                         t \in SeqToSet(Tokens(lastWorksAt[i].strategy)) }
      IN dumping # {} =>
           /\ t \in DOMAIN lastTimeRewardWasDumped
           /\ lastTimeRewardWasDumped[t] =
                MaxOf({ lastWorksAt[i].timestamp : i \in dumping })

\* two strategies sharing t1, the later lastWorkAt fetched first
C7_Witness ==
  /\ pc = "loop" /\ idx = 1 /\ log = <<>>
  /\ Len(lastWorksAt) = 2
  /\ \A i \in 1..2 : "t1" \in SeqToSet(Tokens(lastWorksAt[i].strategy))
  /\ lastWorksAt[1].timestamp > lastWorksAt[2].timestamp
  /\ lastTimeRewardWasDumped["t1"] = lastWorksAt[1].timestamp

\* C8: every assignment to lastTimeRewardWasDumped[t], while the map is built
\* and when a strategy is worked, stores a value not below the one it replaces
\* (the local clock never goes backwards).
C8_Theorem ==
  \A k \in 1..Len(writes) : writes[k].old = -1 \/ writes[k].new >= writes[k].old

\* one replacement while the map was built and one when a strategy was worked
C8_Witness ==
  /\ worked # <<>>
  /\ \E k \in 1..Len(writes) :
       /\ writes[k].old # -1
       /\ writes[k].new \in LastWorkChoices
       /\ writes[k].new > writes[k].old
  /\ \E k \in 1..Len(writes) :
       /\ writes[k].old # -1
       /\ writes[k].new \notin LastWorkChoices
       /\ writes[k].new > writes[k].old

Leg(call) == <<call.to, call.data[1]>>

Legs(calls) == [k \in 1..Len(calls) |-> Leg(calls[k])]

\* the approval C3 expects: present when the sold token's allowance toward the
\* quoted target is below the amount sold
ApprovalIf(token, held, sold) ==
  IF held < sold THEN <<<<token, "approve">>>> ELSE <<>>

\* C3 as claimed: a solve that returns merged its solver's legs in their fixed
\* order, each swap preceded by an approval of the sold token if and only if
\* the swapper's allowance of that token toward the leg's quoted target was
\* numerically below the amount the leg sells.
C3_AsClaimed ==
  result = "returned" =>
    IF solver = "ThreePoolCrvMulticall"
    THEN LET c == ThreePoolCrvMulticall
         IN Legs(merged) =
              <<<<c.crv3Pool, "remove_liquidity_one_coin">>>>
              \o ApprovalIf(c.usdc, loc.usdcAllowance, loc.sellAmount)
              \o <<<<c.zrxContract, "zrx">>, <<c.yvBoost, "withdraw">>>>
    ELSE LET c == CurveSpellEthMulticall
         IN Legs(merged) =
              ApprovalIf(c.crv, loc.crvAllowance, loc.crvBalance)
              \o <<<<c.zrxContract, "zrx">>>>
              \o ApprovalIf(c.cvx, loc.cvxAllowance, loc.cvxBalance)
              \o <<<<c.zrxContract, "zrx">>, <<c.weth, "withdraw">>,
                   <<c.curveSwap, "add_liquidity">>>>

\* C9 as claimed: the merged list is, call for call, what the swapper sent
\* during the simulation.
C9_AsClaimed == result = "returned" => merged = executed

\* C9 as amended: the merged list is, call for call and in order, what the
\* swapper sent during the simulation (each approval present in the one exactly
\* when it is in the other), except that the last call of
\* ThreePoolCrvMulticall, the vault withdrawal, names the swapper as recipient
\* in the simulation and the strategy in the merged list.
C9_Theorem ==
  result = "returned" =>
    /\ Len(merged) = Len(executed)
    /\ \A k \in 1..Len(merged) :
         \/ merged[k] = executed[k]
         \/ /\ solver = "ThreePoolCrvMulticall"
            /\ k = Len(merged)
            /\ executed[k] = Call(ThreePoolCrvMulticall.yvBoost, "withdraw",
                 <<MaxUint256, ThreePoolCrvMulticall.multicallSwapper, 0>>)
            /\ merged[k] = Call(ThreePoolCrvMulticall.yvBoost, "withdraw",
                 <<MaxUint256, ThreePoolCrvMulticall.strategy, 0>>)

\* a ThreePoolCrvMulticall solve that approved and returned
C9_Witness ==
  /\ result = "returned"
  /\ solver = "ThreePoolCrvMulticall"
  /\ loc.approveUsdc
  /\ Len(merged) = 4
  /\ Len(executed) = 4

\* C10 as claimed: with delta = total - pre, the amount to sell is delta - 1
\* when total = delta and delta otherwise, and in both cases it is below total
\* and not negative.
C10_AsClaimed ==
  (solver = "ThreePoolCrvMulticall" /\ "usdcBalance" \in DOMAIN loc) =>
    LET delta == loc.usdcBalanceTotal - loc.usdcBalancePre
    IN /\ loc.usdcBalanceTotal = delta => loc.usdcBalance = delta - 1
       /\ loc.usdcBalanceTotal # delta => loc.usdcBalance = delta
       /\ loc.usdcBalance < loc.usdcBalanceTotal
       /\ loc.usdcBalance >= 0

====
